---- MODULE Spec2Model ----
(***************************************************************************)
(* Model of src/sync.rs of mastodon-bluesky-sync: the synchronisation      *)
(* planner determine_posts, the equality matcher toot_and_post_are_equal,  *)
(* the two length adapters bsky_post_shorten / toot_shorten, the text      *)
(* normalisers, the duplicate guard filter_posted_before and the cache     *)
(* loader read_post_cache.                                                 *)
(*                                                                         *)
(* Strings.  A Rust String is modelled as a sequence of atoms.  An atom is *)
(* an indivisible piece of text with a fixed width in grapheme clusters    *)
(* and a fixed number of chars (Unicode scalar values):                    *)
(*   "a" "b" "c" "d" "k"   one lowercase letter                            *)
(*   "B"                  one uppercase letter (to_lowercase gives "b")    *)
(*   " " "\n"             whitespace                                       *)
(*   "s110"               a run of 110 spaces                              *)
(*   "@" "\\" "#" ":" "/" "&"  punctuation                                 *)
(*   "ELL"                U+2026 HORIZONTAL ELLIPSIS (one grapheme)        *)
(*   "RECYCLE" "SPEECH"   the emoji of the boost and quote markers         *)
(*   "https://" "http://" a URL scheme (8 and 7 graphemes)                 *)
(*   "<p>" "</p>" "<br>" "<br />" "<span>" "</span>"  markup tags          *)
(*   "&amp;"              an HTML entity                                   *)
(*   "x200" "y90" "z20" "w250" "v301" "u300" "q501"                        *)
(*                        a run of n copies of one lowercase letter that   *)
(*                        occurs in no other atom (a long word)            *)
(*   "m.s/1" "m.s/2" "bsky.app" "profile" "post" "3lb3f2ko4rc23" ...       *)
(*                        fixed pieces of URLs, handles and identifiers    *)
(* No atom is a concatenation of other atoms, so two atom sequences are    *)
(* equal exactly when the strings they stand for are equal.                *)
(* Option<T> is a sequence of length 0 (None) or 1 (Some).                 *)
(***************************************************************************)
EXTENDS Integers, Sequences, FiniteSets, Bags, TLC

None == <<>>

Some(x) == <<x>>

(***************************************************************************)
(* Atom tables.                                                            *)
(***************************************************************************)
\* Width of an atom in grapheme clusters (graphemes(true).count()).
Width(a) ==
    CASE a = "https://" -> 8
      [] a = "http://" -> 7
      [] a = "<p>" -> 3
      [] a = "</p>" -> 4
      [] a = "<br>" -> 4
      [] a = "<br />" -> 6
      [] a = "<span>" -> 6
      [] a = "</span>" -> 7
      [] a = "&amp;" -> 5
      [] a = "x200" -> 200
      [] a = "y90" -> 90
      [] a = "z20" -> 20
      [] a = "w250" -> 250
      [] a = "v301" -> 301
      [] a = "u300" -> 300
      [] a = "q501" -> 501
      [] a = "g1001" -> 1001
      [] a = "s110" -> 110
      [] a = "m.s/1" -> 5
      [] a = "m.s/2" -> 5
      [] a = "bsky.app" -> 8
      [] a = "profile" -> 7
      [] a = "post" -> 4
      [] a = "klau.si" -> 7
      [] a = "3lb3f2ko4rc23" -> 13
      [] a = "at://did:plc:i7" -> 15
      [] a = "app.bsky.feed.post" -> 18
      [] OTHER -> 1

\* Whitespace atoms (char::is_whitespace, the regex class \s).
IsSpace(a) == a \in {" ", "\n", "s110"}

\* Markup tags removed by voca_rs::strip::strip_tags.
IsTag(a) == a \in {"<p>", "</p>", "<br>", "<br />", "<span>", "</span>"}

\* str::to_lowercase on one atom.
LowerAtom(a) == IF a = "B" THEN "b" ELSE a

(***************************************************************************)
(* String primitives.                                                      *)
(***************************************************************************)
RECURSIVE GraphemeCount(_)
\* text.graphemes(true).count()
GraphemeCount(s) ==
    IF s = <<>> THEN 0 ELSE Width(Head(s)) + GraphemeCount(Tail(s))

\* s[..n] in atoms.
Prefix(s, n) == SubSeq(s, 1, n)

\* s[n+1..] in atoms.
Suffix(s, n) == SubSeq(s, n + 1, Len(s))

StartsWith(s, p) == Len(p) <= Len(s) /\ Prefix(s, Len(p)) = p

EndsWith(s, p) == Len(p) <= Len(s) /\ Suffix(s, Len(s) - Len(p)) = p

RECURSIVE TrimStart(_)
TrimStart(s) ==
    IF s # <<>> /\ IsSpace(Head(s)) THEN TrimStart(Tail(s)) ELSE s

RECURSIVE TrimEnd(_)
TrimEnd(s) ==
    IF s # <<>> /\ IsSpace(s[Len(s)]) THEN TrimEnd(Prefix(s, Len(s) - 1)) ELSE s

\* str::trim
Trim(s) == TrimEnd(TrimStart(s))

RECURSIVE Replace(_, _, _)
\* str::replace(from, to): every non-overlapping occurrence, left to right.
Replace(s, from, to) ==
    IF s = <<>> THEN <<>>
    ELSE IF StartsWith(s, from) THEN to \o Replace(Suffix(s, Len(from)), from, to)
    ELSE <<Head(s)>> \o Replace(Tail(s), from, to)

RECURSIVE Contains(_, _)
\* str::contains(pat); the empty pattern is contained in every string.
Contains(s, pat) ==
    IF StartsWith(s, pat) THEN TRUE
    ELSE IF s = <<>> THEN FALSE
    ELSE Contains(Tail(s), pat)

\* str::to_lowercase
ToLowercase(s) == [i \in 1..Len(s) |-> LowerAtom(s[i])]

RECURSIVE StripTags(_)
\* voca_rs::strip::strip_tags
StripTags(s) ==
    IF s = <<>> THEN <<>>
    ELSE IF IsTag(Head(s)) THEN StripTags(Tail(s))
    ELSE <<Head(s)>> \o StripTags(Tail(s))

\* html_escape::decode_html_entities
DecodeHtmlEntities(s) == [i \in 1..Len(s) |-> IF s[i] = "&amp;" THEN "&" ELSE s[i]]

RECURSIVE RemoveLastWord(_)
\* Regex [^\s]+$ replaced by "": the trailing run of non-whitespace goes.
RemoveLastWord(s) ==
    IF s # <<>> /\ ~IsSpace(s[Len(s)]) THEN RemoveLastWord(Prefix(s, Len(s) - 1)) ELSE s

RECURSIVE LastSegment(_)
\* Regex [^/]+$ find: the text after the last "/" (None when it is empty).
LastSegment(s) ==
    IF s # <<>> /\ s[Len(s)] # "/" THEN LastSegment(Prefix(s, Len(s) - 1)) \o <<s[Len(s)]>>
    ELSE <<>>

(***************************************************************************)
(* Outcomes.  A Rust function either returns, panics (expect / unwrap /    *)
(* an out-of-range splice) or never returns (a loop whose state repeats).  *)
(* Every modelled function that can panic or loop returns a record         *)
(* [status, ...] with status in {"ok", "panic", "hang"}.                   *)
(***************************************************************************)
Ok(t) == [status |-> "ok", text |-> t]

Panic == [status |-> "panic", text |-> <<>>]

Hang == [status |-> "hang", text |-> <<>>]

\* Bluesky has a limit of 300 characters.
BskyLimit == 300

\* Mastodon has a 500 character post limit.
TootLimit == 500

\* The "… " that precedes an appended link.
Ellipsis == <<"ELL", " ">>

(***************************************************************************)
(* Length adapter, platform B: bsky_post_shorten.                          *)
(* A value that the code binds once and reads several times is an operator *)
(* parameter here: the operator that computes it hands it to the operator  *)
(* that reads it.                                                          *)
(***************************************************************************)
\* The locals before the while loop.
BskyShortenInit(text) ==
    [shortened |-> Trim(text), with_link |-> Trim(text), char_count |-> GraphemeCount(text)]

\* The link is appended without the ellipsis.
BskyLinkSuffix_NoEllipsis(toot_url) ==
    IF toot_url # None THEN toot_url[1] ELSE <<>>

\* What is appended to the shortened text in the loop body.
BskyLinkSuffix(toot_url) ==
    IF toot_url # None THEN Ellipsis \o toot_url[1] ELSE <<>>

\* The link is appended but not counted.
BskyLoopBody_LinkNotCounted(shortened, toot_url) ==
    [shortened |-> shortened,
     with_link |-> shortened \o BskyLinkSuffix(toot_url),
     char_count |-> GraphemeCount(shortened)]

\* The locals after a loop body that left the text `shortened`.
BskyLoopBody(shortened, toot_url) ==
    [shortened |-> shortened,
     with_link |-> shortened \o BskyLinkSuffix(toot_url),
     char_count |-> GraphemeCount(shortened \o BskyLinkSuffix(toot_url))]

\* One execution of the loop body: remove the last word, add the link.
BskyShortenStep(st, toot_url) ==
    BskyLoopBody(Trim(RemoveLastWord(st.shortened)), toot_url)

\* The loop condition.
BskyShortenGuard(st) == st.char_count > BskyLimit

RECURSIVE BskyShortenLoop(_, _)
RECURSIVE BskyShortenRepeat(_, _, _)
\* The while loop from the locals st on.
BskyShortenLoop(st, toot_url) ==
    IF ~BskyShortenGuard(st) THEN Ok(st.with_link)
    ELSE BskyShortenRepeat(st, BskyShortenStep(st, toot_url), toot_url)

\* A body that leaves the locals unchanged repeats forever.
BskyShortenRepeat(st, nx, toot_url) ==
    IF nx = st THEN Hang ELSE BskyShortenLoop(nx, toot_url)

bsky_post_shorten(text, toot_url) == BskyShortenLoop(BskyShortenInit(text), toot_url)

(***************************************************************************)
(* Length adapter, platform A: toot_shorten.                               *)
(***************************************************************************)
\* The two parts of the permalink are swapped.
BskyPermalink_Swapped(username, post_id) ==
    <<"https://", "bsky.app", "/", "profile", "/">> \o post_id
        \o <<"/", "post", "/">> \o username

\* https://bsky.app/profile/{username}/post/{post_id}
BskyPermalink(username, post_id) ==
    <<"https://", "bsky.app", "/", "profile", "/">> \o username
        \o <<"/", "post", "/">> \o post_id

TootShortenInit(text) ==
    [shortened |-> Trim(text), with_link |-> Trim(text), char_count |-> GraphemeCount(text)]

\* The locals after a loop body that left the text `shortened`.
TootLoopBody(shortened, link) ==
    [shortened |-> shortened,
     with_link |-> shortened \o Ellipsis \o link,
     char_count |-> GraphemeCount(shortened \o Ellipsis \o link)]

\* One execution of the loop body: remove the last word, add the link.
TootShortenStep(st, link) == TootLoopBody(Trim(RemoveLastWord(st.shortened)), link)

TootShortenGuard(st) == st.char_count > TootLimit

RECURSIVE TootShortenLoop(_, _)
RECURSIVE TootShortenRepeat(_, _, _)
TootShortenLoop(st, link) ==
    IF ~TootShortenGuard(st) THEN Ok(st.with_link)
    ELSE TootShortenRepeat(st, TootShortenStep(st, link), link)

TootShortenRepeat(st, nx, link) ==
    IF nx = st THEN Hang ELSE TootShortenLoop(nx, link)

\* toot_shorten past the early return; post_id_regex.find(..).unwrap() panics
\* when the uri has no last segment.
TootShortenLong(text, username, post_id) ==
    IF post_id = <<>> THEN Panic
    ELSE TootShortenLoop(TootShortenInit(text), BskyPermalink(username, post_id))

\* bsky_post is the PostViewData: author.handle and uri are read.
toot_shorten(text, bsky_post) ==
    IF GraphemeCount(text) <= TootLimit THEN Ok(text)
    ELSE TootShortenLong(text, bsky_post.author.handle, LastSegment(bsky_post.uri))

(***************************************************************************)
(* Content normaliser.                                                     *)
(***************************************************************************)
\* The text before markup is stripped: a boost is prefixed with its author.
TootRawText(toot) ==
    IF toot.reblog = None THEN toot.content
    ELSE <<"RECYCLE", " ">> \o toot.reblog[1].account.username
             \o <<":", " ">> \o toot.reblog[1].content

\* The five replace calls on line breaks and paragraphs.
ReplaceBreaks(text) ==
    Replace(Replace(Replace(Replace(Replace(text, <<"<br />">>, <<"\n">>),
                                    <<"<br>">>, <<"\n">>),
                            <<"</p>", "<p>">>, <<"\n", "\n">>),
                    <<"<p>">>, <<>>),
            <<"</p>">>, <<>>)

\* Escape direct user mentions with @\.
EscapeMentions(text) ==
    Replace(Replace(text, <<" ", "@">>, <<" ", "@", "\\">>),
            <<" ", "@", "\\", "\\">>, <<" ", "@", "\\">>)

\* Prefix boost toots with the author and strip HTML tags.
mastodon_toot_get_text(toot) ==
    DecodeHtmlEntities(EscapeMentions(StripTags(ReplaceBreaks(TootRawText(toot)))))

\* Unifies bluesky text or toot text to a common format.
unify_post_content(content) ==
    Replace(Replace(Replace(Replace(ToLowercase(content), <<"http://">>, <<>>),
                            <<"https://">>, <<>>),
                    <<" ", "\\", "@">>, <<" ", "@">>),
            <<" ", "@", "\\">>, <<" ", "@">>)

\* Bytes of an atom in UTF-8.
ByteWidth(a) ==
    CASE a = "ELL" -> 3
      [] a = "RECYCLE" -> 6
      [] a = "SPEECH" -> 4
      [] OTHER -> Width(a)

\* One more atom, unless the rest is off an atom boundary.
OneMore(k) == IF k = -1 THEN -1 ELSE k + 1

RECURSIVE AtomsInBytes(_, _)
\* The number of leading atoms of s that take exactly n bytes; -1 when byte
\* n is past the end of s or inside an atom.
AtomsInBytes(s, n) ==
    IF n = 0 THEN 0
    ELSE IF s = <<>> \/ ByteWidth(Head(s)) > n THEN -1
    ELSE OneMore(AtomsInBytes(Tail(s), n - ByteWidth(Head(s))))

\* The splice between atoms a and b; a range that is reversed, past the end
\* or off a char boundary panics (in splice or in from_utf8).
SpliceAt(text, a, b, uri) ==
    IF a = -1 \/ b = -1 \/ a > b THEN Panic
    ELSE Ok(Prefix(text, a) \o uri \o Suffix(text, b))

\* bytes.splice(byte_start..byte_end, uri) of the record's original text.
SpliceLink(text, facet) ==
    SpliceAt(text, AtomsInBytes(text, facet.index.byte_start),
             AtomsInBytes(text, facet.index.byte_end), facet.features[1].uri)

RECURSIVE FacetLoop(_, _, _)
RECURSIVE FacetSpliced(_, _, _)
\* for facet in facets: each link facet splices the ORIGINAL text;
\* features[0] panics on a facet without features.
FacetLoop(original, facets, text) ==
    IF facets = <<>> THEN Ok(text)
    ELSE IF Head(facets).features = <<>> THEN Panic
    ELSE IF Head(facets).features[1].kind = "link"
         THEN FacetSpliced(original, Tail(facets), SpliceLink(original, Head(facets)))
    ELSE FacetLoop(original, Tail(facets), text)

\* The loop after a splice with outcome r.
FacetSpliced(original, rest, r) ==
    IF r.status # "ok" THEN r ELSE FacetLoop(original, rest, r.text)

\* Get the full text of a bluesky post.
bsky_record_get_text(bsky_record) ==
    IF bsky_record.facets = None THEN Ok(bsky_record.text)
    ELSE FacetLoop(bsky_record.text, bsky_record.facets[1], bsky_record.text)

\* A record that does not parse is taken as an empty text (unwrap_or_default).
RecordText_Default(unknown) ==
    IF ~unknown.parsable THEN Ok(<<>>) ELSE bsky_record_get_text(unknown)

\* RecordData::try_from_unknown(...).expect(...) followed by the text.
RecordText(unknown) ==
    IF ~unknown.parsable THEN Panic ELSE bsky_record_get_text(unknown)

\* viewer.repost is present
IsRepost(bsky_post) ==
    bsky_post.post.viewer # None /\ bsky_post.post.viewer[1].repost # None

\* The embed is a record view holding a view record (a quoted post).
IsQuote(bsky_post) ==
    bsky_post.post.embed # None /\ bsky_post.post.embed[1].kind = "record"

\* Add prefix for reposts.
WithRepostPrefix(bsky_post, text) ==
    IF IsRepost(bsky_post)
    THEN <<"RECYCLE", " ">> \o bsky_post.post.author.handle \o <<":", " ">> \o text
    ELSE text

\* The quoted record is parsed (qrec) and appended, then the text is cut.
DecodeQuote(bsky_post, text, handle, qrec) ==
    IF qrec.status # "ok" THEN qrec
    ELSE toot_shorten(text \o <<"\n", "\n", "SPEECH", " ">> \o handle \o <<":", " ">>
                          \o qrec.text,
                      bsky_post.post)

\* The part of bsky_post_unshorten_decode on the embed.
DecodeEmbed(bsky_post, text) ==
    IF IsQuote(bsky_post)
    THEN DecodeQuote(bsky_post, text, bsky_post.post.embed[1].quote.author.handle,
                     RecordText(bsky_post.post.embed[1].quote.value))
    ELSE toot_shorten(text, bsky_post.post)

\* The part of bsky_post_unshorten_decode after the record is parsed (rec).
DecodeRecord(bsky_post, rec) ==
    IF rec.status # "ok" THEN rec
    ELSE DecodeEmbed(bsky_post, WithRepostPrefix(bsky_post, rec.text))

\* Extend URLs and directly include quoted posts in the text.
bsky_post_unshorten_decode(bsky_post) ==
    DecodeRecord(bsky_post, RecordText(bsky_post.post.record))

(***************************************************************************)
(* Equality matcher.                                                       *)
(***************************************************************************)
Answer(b) == [status |-> "ok", value |-> b]

Abort(r) == [status |-> r.status, value |-> FALSE]

\* The URL handed to bsky_post_shorten: the boosted toot's for a boost.
TootSourceUrl(toot) ==
    IF toot.reblog = None THEN toot.url ELSE toot.reblog[1].url

\* Both must be replies or both must not be replies.
StructureDiffers(toot, bsky_post) ==
    \/ (toot.in_reply_to_id # None /\ bsky_post.reply = None)
    \/ (toot.in_reply_to_id = None /\ bsky_post.reply # None)

\* The second comparison: the unified toot text, shortened for Bluesky.
ShortenedToot(toot, toot_text) == bsky_post_shorten(toot_text, TootSourceUrl(toot))

\* if shortened_toot == bsky_text
CompareShortened(shortened, bsky_text) ==
    IF shortened.status # "ok" THEN Abort(shortened)
    ELSE Answer(unify_post_content(shortened.text) = bsky_text)

\* if toot_text == bsky_text, else the comparison of the shortened toot.
CompareUnified(toot, toot_text, bsky_text) ==
    IF toot_text = bsky_text THEN Answer(TRUE)
    ELSE CompareShortened(ShortenedToot(toot, toot_text), bsky_text)

\* The comparison once both texts are there; decoded is the outcome of
\* bsky_post_unshorten_decode.
CompareTexts(toot, toot_text, decoded) ==
    IF decoded.status # "ok" THEN Abort(decoded)
    ELSE CompareUnified(toot, toot_text, unify_post_content(decoded.text))

\* Returns true if a Mastodon toot and a Bluesky post are considered equal.
toot_and_post_are_equal(toot, bsky_post) ==
    IF StructureDiffers(toot, bsky_post) THEN Answer(FALSE)
    ELSE CompareTexts(toot, unify_post_content(mastodon_toot_get_text(toot)),
                      bsky_post_unshorten_decode(bsky_post))

(***************************************************************************)
(* Attachments.  An alt text is kept run-length encoded, as a sequence of  *)
(* runs [ch, n] (n copies of the char ch), so that a cut at any char index *)
(* can be expressed.                                                       *)
(***************************************************************************)
RECURSIVE CharCount(_)
\* string.chars().count()
CharCount(s) == IF s = <<>> THEN 0 ELSE Head(s).n + CharCount(Tail(s))

RECURSIVE TakeChars(_, _)
\* string[..idx] where idx is the byte index of char number max_chars.
TakeChars(s, max_chars) ==
    IF s = <<>> \/ max_chars = 0 THEN <<>>
    ELSE IF Head(s).n <= max_chars
         THEN <<Head(s)>> \o TakeChars(Tail(s), max_chars - Head(s).n)
    ELSE <<[ch |-> Head(s).ch, n |-> max_chars]>>

\* Truncates a given string to a maximum number of characters.
truncate_option_string(stringy, max_chars) ==
    IF stringy = None THEN None
    ELSE IF CharCount(stringy[1]) <= max_chars THEN Some(stringy[1])
    ELSE Some(TakeChars(stringy[1], max_chars))

\* Bluesky only allows a max length of 1,000 characters for alt text.
AltTextLimit == 1000

\* Returns a list of direct links to attachments for download.
bsky_get_attachments(bsky_post) ==
    IF bsky_post.post.embed # None /\ bsky_post.post.embed[1].kind = "images"
    THEN LET images == bsky_post.post.embed[1].images
         IN  [i \in 1..Len(images) |->
                 [attachment_url |-> images[i].fullsize, alt_text |-> Some(images[i].alt)]]
    ELSE <<>>

\* The alt text of an attachment taken from a toot.
TootAltText(attachment) == truncate_option_string(attachment.description, AltTextLimit)

\* Returns a list of direct links to attachments for download.
toot_get_attachments(toot) ==
    LET attachments ==
            IF toot.media_attachments = <<>> /\ toot.reblog # None
            THEN toot.reblog[1].media_attachments
            ELSE toot.media_attachments
    IN  [i \in 1..Len(attachments) |->
            [attachment_url |-> attachments[i].url, alt_text |-> TootAltText(attachments[i])]]

(***************************************************************************)
(* Sync planner: determine_posts.                                          *)
(* A NewStatus carries one field the code does not have: source, the       *)
(* position (1 = newest) of the post it was made from in its input list.   *)
(* Nothing in the model reads it except the properties.                    *)
(* In the pass operators m is mastodon_statuses, b is bsky_statuses, o is  *)
(* options, i the position of the post the outer loop is at.               *)
(***************************************************************************)
NewStatus(text, attachments, source) ==
    [text |-> text, attachments |-> attachments, replies |-> <<>>,
     in_reply_to_id |-> None, source |-> source]

\* if let Some(_reply) = &post.reply { continue; }
BskyIsReply(post) == post.reply # None

\* Skip reskeets when sync_reposts is disabled.
BskyRepostSkipped(post, o) == ~o.sync_reposts /\ IsRepost(post)

\* The check on in_reply_to_id is missing.
TootIsReply_Missing(toot) == FALSE

\* if let Some(_id) = &toot.in_reply_to_id { continue; }
TootIsReply(toot) == toot.in_reply_to_id # None

\* The boost check reads the option of the other direction.
TootReblogSkipped_OtherOption(toot, o) == toot.reblog # None /\ ~o.sync_reposts

\* Skip reblogs when sync_reblogs is disabled.
TootReblogSkipped(toot, o) == toot.reblog # None /\ ~o.sync_reblogs

\* The check for direct toots is missing.
IsDirectToot_Missing(post) == FALSE

\* Skip direct toots to other Mastodon users: post.starts_with('@').
IsDirectToot(post) == StartsWith(post, <<"@">>)

\* The hashtag check is missing.
HashtagPasses_Missing(sync_hashtag, text) == TRUE

\* The hashtag check, negated: TRUE when the candidate is kept.
HashtagPasses(sync_hashtag, text) ==
    ~(sync_hashtag # None /\ sync_hashtag[1] # <<>> /\ ~Contains(text, sync_hashtag[1]))

RECURSIVE ScanToots(_, _, _)
RECURSIVE ScanTootsOn(_, _, _, _)
\* The inner loop of the first pass, from toot j on: "match" at the first
\* non-reply toot equal to the post, "none" when the list is exhausted.
ScanToots(post, m, j) ==
    IF j > Len(m) THEN "none"
    ELSE IF TootIsReply(m[j]) THEN ScanToots(post, m, j + 1)
    ELSE ScanTootsOn(toot_and_post_are_equal(m[j], post), post, m, j)

\* A plain break leaves the inner loop only: the post is pushed.
ScanTootsOn_PlainBreak(eq, post, m, j) ==
    IF eq.status # "ok" THEN eq.status
    ELSE IF eq.value THEN "none"
    ELSE ScanToots(post, m, j + 1)

\* if toot_and_post_are_equal(toot, post) { break 'bsky; }
ScanTootsOn(eq, post, m, j) ==
    IF eq.status # "ok" THEN eq.status
    ELSE IF eq.value THEN "match"
    ELSE ScanToots(post, m, j + 1)

RECURSIVE ScanBsky(_, _, _)
RECURSIVE ScanBskyOn(_, _, _, _)
\* The inner loop of the second pass, from post j on.
ScanBsky(toot, b, j) ==
    IF j > Len(b) THEN "none"
    ELSE ScanBskyOn(toot_and_post_are_equal(toot, b[j]), toot, b, j)

\* A plain break leaves the inner loop only: the toot is pushed.
ScanBskyOn_PlainBreak(eq, toot, b, j) ==
    IF eq.status # "ok" THEN eq.status
    ELSE IF eq.value THEN "none"
    ELSE ScanBsky(toot, b, j + 1)

\* if toot_and_post_are_equal(toot, bsky_post) { break 'toots; }
ScanBskyOn(eq, toot, b, j) ==
    IF eq.status # "ok" THEN eq.status
    ELSE IF eq.value THEN "match"
    ELSE ScanBsky(toot, b, j + 1)

Returned(list) == [status |-> "ok", list |-> list]

Aborted(status) == [status |-> status, list |-> <<>>]

RECURSIVE BskyPass(_, _, _, _, _)
RECURSIVE BskyScanned(_, _, _, _, _, _)
RECURSIVE BskyDecoded(_, _, _, _, _, _)
\* 'bsky: for post in bsky_statuses, from post i on; toots is updates.toots.
BskyPass(m, b, o, i, toots) ==
    IF i > Len(b) THEN Returned(toots)
    ELSE IF BskyIsReply(b[i]) \/ BskyRepostSkipped(b[i], o)
         THEN BskyPass(m, b, o, i + 1, toots)
    ELSE BskyScanned(m, b, o, i, toots, ScanToots(b[i], m, 1))

\* After the inner loop with outcome scan: break 'bsky on a match.
BskyScanned(m, b, o, i, toots, scan) ==
    IF scan = "match" THEN Returned(toots)
    ELSE IF scan # "none" THEN Aborted(scan)
    ELSE BskyDecoded(m, b, o, i, toots, bsky_post_unshorten_decode(b[i]))

\* After let decoded_post = ...: the hashtag check and the push.
BskyDecoded(m, b, o, i, toots, decoded_post) ==
    IF decoded_post.status # "ok" THEN Aborted(decoded_post.status)
    ELSE IF ~HashtagPasses(o.sync_hashtag_bluesky, decoded_post.text)
         THEN BskyPass(m, b, o, i + 1, toots)
    ELSE BskyPass(m, b, o, i + 1,
                  Append(toots, NewStatus(decoded_post.text, bsky_get_attachments(b[i]), i)))

RECURSIVE TootPass(_, _, _, _, _)
RECURSIVE TootShortened(_, _, _, _, _, _, _)
RECURSIVE TootScanned(_, _, _, _, _, _, _, _)
\* let post = bsky_post_shorten(&fulltext, url)
TootFullText(m, b, o, i, bsky_posts, fulltext) ==
    TootShortened(m, b, o, i, bsky_posts, fulltext,
                  bsky_post_shorten(fulltext, TootSourceUrl(m[i])))

\* 'toots: for toot in mastodon_statuses, from toot i on.
TootPass(m, b, o, i, bsky_posts) ==
    IF i > Len(m) THEN Returned(bsky_posts)
    ELSE IF TootIsReply(m[i]) \/ TootReblogSkipped(m[i], o)
         THEN TootPass(m, b, o, i + 1, bsky_posts)
    ELSE TootFullText(m, b, o, i, bsky_posts, mastodon_toot_get_text(m[i]))

\* The toot is compared before the check for direct toots.
TootShortened_ScanFirst(m, b, o, i, bsky_posts, fulltext, post) ==
    IF post.status # "ok" THEN Aborted(post.status)
    ELSE IF ScanBsky(m[i], b, 1) = "match" THEN Returned(bsky_posts)
    ELSE IF IsDirectToot(post.text) THEN TootPass(m, b, o, i + 1, bsky_posts)
    ELSE TootScanned(m, b, o, i, bsky_posts, fulltext, post, ScanBsky(m[i], b, 1))

\* After the shortening with outcome post: direct toots are skipped.
TootShortened(m, b, o, i, bsky_posts, fulltext, post) ==
    IF post.status # "ok" THEN Aborted(post.status)
    ELSE IF IsDirectToot(post.text) THEN TootPass(m, b, o, i + 1, bsky_posts)
    ELSE TootScanned(m, b, o, i, bsky_posts, fulltext, post, ScanBsky(m[i], b, 1))

\* After the inner loop with outcome scan: the hashtag check and the push.
TootScanned(m, b, o, i, bsky_posts, fulltext, post, scan) ==
    IF scan = "match" THEN Returned(bsky_posts)
    ELSE IF scan # "none" THEN Aborted(scan)
    ELSE IF ~HashtagPasses(o.sync_hashtag_mastodon, fulltext)
         THEN TootPass(m, b, o, i + 1, bsky_posts)
    ELSE TootPass(m, b, o, i + 1,
                  Append(bsky_posts, NewStatus(post.text, toot_get_attachments(m[i]), i)))

\* Vec::reverse
Reverse(list) == [i \in 1..Len(list) |-> list[Len(list) + 1 - i]]

\* The queues are returned as they were built.
reverse_order_Missing(updates) == updates

\* StatusUpdates::reverse_order
reverse_order(updates) ==
    [bsky_posts |-> Reverse(updates.bsky_posts), toots |-> Reverse(updates.toots)]

NoUpdates == [bsky_posts |-> <<>>, toots |-> <<>>]

NotReturned(status) == [status |-> status, updates |-> NoUpdates]

\* Both loops are done: updates.reverse_order(); updates
BothPasses(first, second) ==
    IF second.status # "ok" THEN NotReturned(second.status)
    ELSE [status |-> "ok",
          updates |-> reverse_order([bsky_posts |-> second.list, toots |-> first.list])]

\* The first loop is done with outcome first: the second loop.
FirstPass(m, b, o, first) ==
    IF first.status # "ok" THEN NotReturned(first.status)
    ELSE BothPasses(first, TootPass(m, b, o, 1, <<>>))

\* The main synchronization function.  status is "ok" when it returns its
\* queues, "panic" or "hang" when it does not return.
determine_posts(mastodon_statuses, bsky_statuses, options) ==
    FirstPass(mastodon_statuses, bsky_statuses, options,
              BskyPass(mastodon_statuses, bsky_statuses, options, 1, <<>>))

(***************************************************************************)
(* Duplicate-post guard.                                                   *)
(***************************************************************************)
\* The cached posts are reported but not removed.
FilterQueue_KeepsAll(queue, post_cache) == queue

\* Only the queue for Mastodon is compared with the cache.
filter_posted_before_TootsOnly(posts, post_cache) ==
    [is_ok |-> TRUE,
     value |-> [bsky_posts |-> posts.bsky_posts,
                toots |-> SelectSeq(posts.toots, LAMBDA post : post.text \notin post_cache)]]

RECURSIVE FilterQueue(_, _)
\* One of the two for loops: keep the posts whose text is not cached.
FilterQueue(queue, post_cache) ==
    IF queue = <<>> THEN <<>>
    ELSE IF Head(queue).text \in post_cache THEN FilterQueue(Tail(queue), post_cache)
    ELSE <<Head(queue)>> \o FilterQueue(Tail(queue), post_cache)

\* Ensure that sync posts have not been made before.  Always Ok(...).
filter_posted_before(posts, post_cache) ==
    IF posts.toots = <<>> /\ posts.bsky_posts = <<>>
    THEN [is_ok |-> TRUE, value |-> posts]
    ELSE [is_ok |-> TRUE,
          value |-> [bsky_posts |-> FilterQueue(posts.bsky_posts, post_cache),
                     toots |-> FilterQueue(posts.toots, post_cache)]]

\* If the cache has more than 150 items already then empty it.
CacheLimit == 150

\* The cache is emptied at 150 entries already.
read_post_cache_AtLimit(file) ==
    IF ~file.readable THEN {}
    ELSE IF ~file.is_json THEN {}
    ELSE IF Cardinality(file.entries) >= CacheLimit THEN {}
    ELSE file.entries

\* Read the JSON encoded cache file from disk or provide an empty default
\* cache.  file.readable: fs::read_to_string is Ok; file.is_json: serde_json
\* parses the content as a set of strings, file.entries.
read_post_cache(file) ==
    IF ~file.readable THEN {}
    ELSE IF ~file.is_json THEN {}
    ELSE IF Cardinality(file.entries) > CacheLimit THEN {}
    ELSE file.entries

(***************************************************************************)
(* Input domains.                                                          *)
(***************************************************************************)
\* The most posts in the two timelines of a snapshot, taken together.
MaxPosts == 3

\* The most whitespace-separated words of a text handed to a length adapter.
MaxWords == 3

\* The most entries by which a cache file passes the limit of 150.
MaxOver == 1

TootUrl == Some(<<"https://", "m.s/1">>)

BoostUrl == Some(<<"https://", "m.s/2">>)

\* A URL of 308 graphemes.
LongUrl == Some(<<"https://", "u300">>)

Handle == <<"klau.si">>

PostUri == <<"at://did:plc:i7", "/", "app.bsky.feed.post", "/", "3lb3f2ko4rc23">>

\* A resource locator whose record key has 501 characters.
LongPostUri == <<"at://did:plc:i7", "/", "app.bsky.feed.post", "/", "q501">>

Hashtag == <<"#", "k">>

\* A megalodon Status: the fields the code reads.
Toot(content, in_reply_to_id, reblog, url, media_attachments) ==
    [content |-> content, in_reply_to_id |-> in_reply_to_id, reblog |-> reblog,
     url |-> url, media_attachments |-> media_attachments]

\* The boosted Status inside a boost.
Boosted(content, media_attachments) ==
    [account |-> [username |-> <<"k">>], content |-> content, url |-> BoostUrl,
     media_attachments |-> media_attachments]

\* A megalodon Attachment.
Attachment(description) == [url |-> <<"https://", "m.s/2">>, description |-> description]

\* An app.bsky.feed.post record as received (Unknown) and its parse.
Record(text, facets) == [parsable |-> TRUE, text |-> text, facets |-> facets]

Unparsable == [parsable |-> FALSE, text |-> <<>>, facets |-> None]

\* A FeedViewPostData: the fields the code reads.
BskyPost(record, reply, repost, embed) ==
    [reply |-> reply,
     post |-> [record |-> record,
               viewer |-> IF repost THEN Some([repost |-> Some(<<"at://repost">>)])
                          ELSE Some([repost |-> None]),
               author |-> [handle |-> Handle],
               uri |-> PostUri,
               embed |-> embed]]

\* A plain post with the given text: what posting a NewStatus text creates.
PlainBskyPost(text) == BskyPost(Record(text, None), None, FALSE, None)

\* An images embed and a quoted-post embed.
Images(alts) ==
    Some([kind |-> "images",
          images |-> [i \in 1..Len(alts) |-> [fullsize |-> <<"https://", "m.s/2">>,
                                               alt |-> alts[i]]]])

Quote(text) ==
    Some([kind |-> "record",
          quote |-> [value |-> Record(text, None), author |-> [handle |-> Handle]]])

LinkFacet(byte_start, byte_end, uri) ==
    [index |-> [byte_start |-> byte_start, byte_end |-> byte_end],
     features |-> <<[kind |-> "link", uri |-> uri]>>]

IsReplyTo == Some(<<"1">>)

ReplyRef == Some(<<"at://parent">>)

\* Timelines of short posts that differ in their flags.
Toots ==
    { Toot(<<"<p>", "a", "</p>">>, None, None, TootUrl, <<>>),
      Toot(<<"<p>", "a", "</p>">>, IsReplyTo, None, TootUrl, <<>>),
      Toot(<<"<p>", "a", " ", "#", "k", "</p>">>, None, None, TootUrl, <<>>),
      Toot(<<"@", "b", " ", "c">>, None, None, TootUrl, <<>>),
      Toot(<<>>, None, Some(Boosted(<<"<p>", "c", "</p>">>, <<>>)), TootUrl, <<>>) }

BskyPosts ==
    { PlainBskyPost(<<"a">>),
      BskyPost(Record(<<"a">>, None), ReplyRef, FALSE, None),
      PlainBskyPost(<<"a", " ", "#", "k">>),
      BskyPost(Record(<<"c">>, None), None, TRUE, None),
      PlainBskyPost(<<"RECYCLE", " ", "k", ":", " ", "c">>),
      BskyPost(Unparsable, None, FALSE, None) }

\* Alt texts of 3, 1000 and 1001 chars (run-length encoded).
ShortAlt == <<[ch |-> "d", n |-> 3]>>

FullAlt == <<[ch |-> "e", n |-> 1], [ch |-> "g", n |-> 999]>>

LongAlt == <<[ch |-> "e", n |-> 1], [ch |-> "g", n |-> 1000]>>

\* Timelines of posts that differ in their content: long texts, links,
\* mentions, attachments.
ContentToots ==
    { Toot(<<"x200", " ", "y90", " ", "z20">>, None, None, TootUrl, <<>>),
      Toot(<<"x200", " ", "y90", " ", "https://", "c", " ", "d">>, None, None, TootUrl, <<>>),
      Toot(<<"v301">>, None, None, TootUrl, <<>>),
      Toot(<<"v301">>, None, None, None, <<>>),
      Toot(<<"v301">>, None, None, LongUrl, <<>>),
      Toot(<<"<p>", "c", " ", "@", "b", "</p>">>, None, None, TootUrl, <<>>),
      Toot(<<"B", " ", "&amp;", "<br>", "a">>, None, None, TootUrl,
           <<Attachment(None), Attachment(Some(ShortAlt)), Attachment(Some(LongAlt))>>),
      Toot(<<>>, None, Some(Boosted(<<"a">>, <<Attachment(Some(FullAlt))>>)), TootUrl, <<>>) }

ContentBskyPosts ==
    { PlainBskyPost(<<"x200", "ELL", " ", "https://", "m.s/1">>),
      BskyPost(Record(<<"x200", " ", "w250">>, None), None, FALSE, Quote(<<"y90", " ", "a">>)),
      PlainBskyPost(<<"q501">>),
      BskyPost(Record(<<"d">>, None), None, FALSE, Images(<<ShortAlt, LongAlt>>)),
      BskyPost(Record(<<"a", " ", "c">>, Some(<<LinkFacet(2, 3, <<"https://", "m.s/1">>)>>)),
               None, FALSE, None),
      PlainBskyPost(<<"b", " ", "&", "\n", "a">>) }

HashtagOptions == {None, Some(<<>>), Some(Hashtag)}

Options ==
    [sync_reblogs : BOOLEAN, sync_reposts : BOOLEAN,
     sync_hashtag_bluesky : HashtagOptions, sync_hashtag_mastodon : HashtagOptions]

\* The options without a hashtag filter.
PlainOptions ==
    [sync_reblogs : BOOLEAN, sync_reposts : BOOLEAN,
     sync_hashtag_bluesky : {None}, sync_hashtag_mastodon : {None}]

SeqsUpTo(S, n) == UNION {[1..k -> S] : k \in 0..n}

\* The snapshot pairs with at most n posts in all.
Snapshots(T, B, n) ==
    {sn \in SeqsUpTo(T, n) \X SeqsUpTo(B, n) : Len(sn[1]) + Len(sn[2]) <= n}

FillerAtoms == <<"f0", "f1", "f2", "f3", "f4", "f5">>

FillerDigit(a) == CHOOSE d \in 1..Len(FillerAtoms) : FillerAtoms[d] = a

\* The rank, from 1, of a three-atom filler string.
FillerIndex(s) ==
    36 * (FillerDigit(s[1]) - 1) + 6 * (FillerDigit(s[2]) - 1) + FillerDigit(s[3])

\* n strings that are no post text.
Filler(n) ==
    {s \in [1..3 -> {FillerAtoms[d] : d \in 1..Len(FillerAtoms)}] : FillerIndex(s) <= n}

CachedTexts == {{}, {<<"a">>}, {<<"a">>, <<"a", " ", "#", "k">>}}

\* What the cache file can hold: unreadable, not JSON, or a set of strings.
CacheFiles ==
    { [readable |-> FALSE, is_json |-> FALSE, entries |-> {}],
      [readable |-> TRUE, is_json |-> FALSE, entries |-> {}] }
    \cup { [readable |-> TRUE, is_json |-> TRUE, entries |-> texts \cup Filler(n)] :
             texts \in CachedTexts,
             n \in {0, 149, 150} \cup {150 + k : k \in 1..MaxOver} }

(***************************************************************************)
(* State.  The sync cycle: determine_posts on the fetched snapshot, then   *)
(* the cache is read and the candidates are filtered.  posted is the bag   *)
(* of texts handed to the posting collaborators so far.  shorten holds the *)
(* locals of one call of a length adapter, executed an iteration at a      *)
(* time; shorten.iterations counts the iterations of its loop modulo 2, so *)
(* that an iteration that leaves the locals as they were is a step.        *)
(***************************************************************************)
VARIABLES mastodon_statuses, bsky_statuses, options, pc, updates, cache_file,
          post_cache, filtered, posted, shorten

vars == <<mastodon_statuses, bsky_statuses, options, pc, updates, cache_file,
          post_cache, filtered, posted, shorten>>

cycle_vars == <<mastodon_statuses, bsky_statuses, options, pc, updates, cache_file,
                post_cache, filtered, posted>>

NoFile == [readable |-> FALSE, is_json |-> FALSE, entries |-> {}]

NoShortenState == [shortened |-> <<>>, with_link |-> <<>>, char_count |-> 0]

NoShorten ==
    [pc |-> "idle", fn |-> "none", text |-> <<>>, toot_url |-> None,
     bsky_post |-> [author |-> [handle |-> <<>>], uri |-> <<>>], link |-> <<>>,
     st |-> NoShortenState, iterations |-> 0, result |-> <<>>]

DefaultOptions ==
    [sync_reblogs |-> FALSE, sync_reposts |-> FALSE,
     sync_hashtag_bluesky |-> None, sync_hashtag_mastodon |-> None]

\* The state before determine_posts is called on a snapshot.
CycleStart(snapshots, option_set) ==
    /\ \E sn \in snapshots :
           /\ mastodon_statuses = sn[1]
           /\ bsky_statuses = sn[2]
    /\ options \in option_set
    /\ pc = "start"
    /\ updates = NoUpdates
    /\ cache_file = NoFile
    /\ post_cache = {}
    /\ filtered = NoUpdates
    /\ posted = EmptyBag
    /\ shorten = NoShorten

\* Where the cycle is after a call of determine_posts with outcome r.
Planned(r, returned) ==
    /\ pc' = CASE r.status = "ok" -> returned
               [] r.status = "panic" -> "panicked"
               [] OTHER -> "hung"
    /\ updates' = r.updates

\* determine_posts(&mastodon_statuses, &bsky_statuses, &options)
DeterminePosts ==
    /\ pc = "start"
    /\ Planned(determine_posts(mastodon_statuses, bsky_statuses, options), "planned")
    /\ UNCHANGED <<mastodon_statuses, bsky_statuses, options, cache_file, post_cache,
                   filtered, posted, shorten>>

\* read_post_cache(cache_file): the file holds whatever was left on disk.
ReadPostCache ==
    /\ pc = "planned"
    /\ \E file \in CacheFiles :
           /\ cache_file' = file
           /\ post_cache' = read_post_cache(file)
    /\ pc' = "loaded"
    /\ UNCHANGED <<mastodon_statuses, bsky_statuses, options, updates, filtered, posted,
                   shorten>>

\* Where the cycle is after filter_posted_before(...)? with outcome r.
Filtered(r) ==
    /\ filtered' = r.value
    /\ pc' = IF r.is_ok THEN "filtered" ELSE "failed"

\* filter_posted_before(posts, &post_cache)
FilterPostedBefore ==
    /\ pc = "loaded"
    /\ Filtered(filter_posted_before(updates, post_cache))
    /\ UNCHANGED <<mastodon_statuses, bsky_statuses, options, updates, cache_file,
                   post_cache, posted, shorten>>

(***************************************************************************)
(* Spec: one sync cycle under the default options or with boosts and       *)
(* reposts enabled.                                                        *)
(***************************************************************************)
CycleOptions ==
    {DefaultOptions, [DefaultOptions EXCEPT !.sync_reblogs = TRUE, !.sync_reposts = TRUE]}

Init == CycleStart(Snapshots(Toots, BskyPosts, MaxPosts), CycleOptions)

Next == DeterminePosts \/ ReadPostCache \/ FilterPostedBefore

Spec == Init /\ [][Next]_vars

(***************************************************************************)
(* SpecPlanner: determine_posts on every snapshot of flagged short posts   *)
(* under every combination of the hashtag options.                         *)
(***************************************************************************)
\* Boosts and reposts are both synced or both skipped; each direction has
\* its own hashtag option.
PlannerOptions == {o \in Options : o.sync_reblogs = o.sync_reposts}

PlannerInit == CycleStart(Snapshots(Toots, BskyPosts, MaxPosts), PlannerOptions)

PlannerNext == DeterminePosts

SpecPlanner == PlannerInit /\ [][PlannerNext]_vars

(***************************************************************************)
(* SpecContent: determine_posts on snapshots of posts with long texts,     *)
(* links, mentions and attachments.                                        *)
(***************************************************************************)
ContentInit == CycleStart(Snapshots(ContentToots, ContentBskyPosts, MaxPosts), PlainOptions)

ContentNext == DeterminePosts

SpecContent == ContentInit /\ [][ContentNext]_vars

(***************************************************************************)
(* SpecSkips: determine_posts on snapshots of posts of every kind that is  *)
(* skipped before the equality scan (replies, boosts, reposts, direct      *)
(* toots), each with an equal counterpart on the other platform, under     *)
(* every combination of the two flags and of absent or set hashtags.       *)
(***************************************************************************)
SkipToots ==
    { Toot(<<"<p>", "a", "</p>">>, None, None, TootUrl, <<>>),
      Toot(<<"<p>", "a", "</p>">>, IsReplyTo, None, TootUrl, <<>>),
      Toot(<<"@", "b", " ", "c">>, None, None, TootUrl, <<>>),
      Toot(<<>>, None, Some(Boosted(<<"<p>", "c", "</p>">>, <<>>)), TootUrl, <<>>),
      Toot(<<"RECYCLE", " ">> \o Handle \o <<":", " ", "c">>, None, None, TootUrl, <<>>) }

SkipBskyPosts ==
    { PlainBskyPost(<<"a">>),
      BskyPost(Record(<<"a">>, None), ReplyRef, FALSE, None),
      PlainBskyPost(<<"@", "b", " ", "c">>),
      BskyPost(Record(<<"c">>, None), None, TRUE, None),
      PlainBskyPost(<<"RECYCLE", " ", "k", ":", " ", "c">>) }

\* Each option on its own: both flags, each hashtag absent or set.
SkipOptions ==
    [sync_reblogs : BOOLEAN, sync_reposts : BOOLEAN,
     sync_hashtag_bluesky : {None, Some(Hashtag)},
     sync_hashtag_mastodon : {None, Some(Hashtag)}]

SkipsInit == CycleStart(Snapshots(SkipToots, SkipBskyPosts, MaxPosts), SkipOptions)

SkipsNext == DeterminePosts

SpecSkips == SkipsInit /\ [][SkipsNext]_vars

(***************************************************************************)
(* SpecCycles: sync cycles one after another.  The driver fetches a        *)
(* snapshot, calls determine_posts, loads the cache file it saved in the   *)
(* cycle before, calls filter_posted_before, hands every retained          *)
(* candidate to the posting collaborators and saves the loaded cache       *)
(* together with the texts handed over.  The first cycle finds no file.    *)
(***************************************************************************)
CycleToots ==
    { Toot(<<"<p>", "a", "</p>">>, None, None, TootUrl, <<>>),
      Toot(<<"<p>", "c", "</p>">>, None, None, TootUrl, <<>>) }

CycleBskyPosts == {PlainBskyPost(<<"a">>), PlainBskyPost(<<"c">>)}

CycleSnapshots == Snapshots(CycleToots, CycleBskyPosts, MaxPosts)

\* How often each text occurs in a queue.
QueueBag(queue) ==
    [t \in {queue[i].text : i \in 1..Len(queue)} |->
        Cardinality({i \in 1..Len(queue) : queue[i].text = t})]

CyclesInit == CycleStart(CycleSnapshots, {DefaultOptions})

\* read_post_cache(cache_file): the file is the one saved by the cycle before.
LoadSavedCache ==
    /\ pc = "planned"
    /\ post_cache' = read_post_cache(cache_file)
    /\ pc' = "loaded"
    /\ UNCHANGED <<mastodon_statuses, bsky_statuses, options, updates, cache_file, filtered,
                   posted, shorten>>

\* Every retained candidate is posted and its text is added to the saved cache.
PostAndSave ==
    /\ pc = "filtered"
    /\ posted' = posted (+) QueueBag(filtered.bsky_posts) (+) QueueBag(filtered.toots)
    /\ cache_file' = [readable |-> TRUE, is_json |-> TRUE,
                      entries |-> post_cache \cup BagToSet(QueueBag(filtered.bsky_posts))
                                             \cup BagToSet(QueueBag(filtered.toots))]
    /\ pc' = "posted"
    /\ UNCHANGED <<mastodon_statuses, bsky_statuses, options, updates, post_cache, filtered,
                   shorten>>

\* The next cycle starts on the statuses the two platforms return then.
FetchStatuses ==
    /\ pc = "posted"
    /\ \E sn \in CycleSnapshots :
           /\ mastodon_statuses' = sn[1]
           /\ bsky_statuses' = sn[2]
    /\ pc' = "start"
    /\ updates' = NoUpdates
    /\ filtered' = NoUpdates
    /\ UNCHANGED <<options, cache_file, post_cache, posted, shorten>>

CyclesNext ==
    DeterminePosts \/ LoadSavedCache \/ FilterPostedBefore \/ PostAndSave \/ FetchStatuses

SpecCycles == CyclesInit /\ [][CyclesNext]_vars

(***************************************************************************)
(* SpecShorten: one call of bsky_post_shorten or toot_shorten, one loop    *)
(* iteration per step.  The program is sequential and always executes its  *)
(* next statement, hence the weak fairness.                                *)
(***************************************************************************)
Words ==
    {<<"a">>, <<"x200">>, <<"y90">>, <<"w250">>, <<"v301">>, <<"q501">>, <<"https://", "c">>,
     <<"s110">>}

RECURSIVE JoinWords(_)
\* The words separated by single spaces.
JoinWords(ws) ==
    IF Len(ws) = 1 THEN ws[1] ELSE ws[1] \o <<" ">> \o JoinWords(Tail(ws))

ShortenTexts == {JoinWords(ws) : ws \in SeqsUpTo(Words, MaxWords) \ {<<>>}}

\* The PostViewData fields toot_shorten reads.
PostView(uri) == [author |-> [handle |-> Handle], uri |-> uri]

ShortenCalls ==
    { [pc |-> "call", fn |-> "bsky", text |-> t, toot_url |-> u, bsky_post |-> PostView(PostUri),
       link |-> <<>>, st |-> NoShortenState, iterations |-> 0, result |-> <<>>] :
          t \in ShortenTexts, u \in {None, TootUrl, LongUrl} }
    \cup
    { [pc |-> "call", fn |-> "toot", text |-> t, toot_url |-> None, bsky_post |-> PostView(uri),
       link |-> <<>>, st |-> NoShortenState, iterations |-> 0, result |-> <<>>] :
          t \in ShortenTexts, uri \in {PostUri, LongPostUri} }

ShortenInit ==
    /\ mastodon_statuses = <<>>
    /\ bsky_statuses = <<>>
    /\ options = DefaultOptions
    /\ pc = "idle"
    /\ updates = NoUpdates
    /\ cache_file = NoFile
    /\ post_cache = {}
    /\ filtered = NoUpdates
    /\ posted = EmptyBag
    /\ shorten \in ShortenCalls

\* bsky_post_shorten up to the while loop.
BskyShortenCall ==
    /\ shorten.pc = "call" /\ shorten.fn = "bsky"
    /\ shorten' = [shorten EXCEPT !.pc = "loop", !.st = BskyShortenInit(shorten.text)]
    /\ UNCHANGED cycle_vars

\* One iteration of the while loop of bsky_post_shorten.
BskyShortenIterate ==
    /\ shorten.pc = "loop" /\ shorten.fn = "bsky"
    /\ BskyShortenGuard(shorten.st)
    /\ shorten' = [shorten EXCEPT !.st = BskyShortenStep(shorten.st, shorten.toot_url),
                                  !.iterations = (@ + 1) % 2]
    /\ UNCHANGED cycle_vars

\* The loop condition is false: with_link is returned.
BskyShortenReturn ==
    /\ shorten.pc = "loop" /\ shorten.fn = "bsky"
    /\ ~BskyShortenGuard(shorten.st)
    /\ shorten' = [shorten EXCEPT !.pc = "done", !.result = shorten.st.with_link]
    /\ UNCHANGED cycle_vars

\* toot_shorten up to the while loop, the early return included.
TootShortenCall ==
    /\ shorten.pc = "call" /\ shorten.fn = "toot"
    /\ shorten' =
         IF GraphemeCount(shorten.text) <= TootLimit
         THEN [shorten EXCEPT !.pc = "done", !.result = shorten.text]
         ELSE IF LastSegment(shorten.bsky_post.uri) = <<>>
         THEN [shorten EXCEPT !.pc = "panicked"]
         ELSE [shorten EXCEPT !.pc = "loop", !.st = TootShortenInit(shorten.text),
                              !.link = BskyPermalink(shorten.bsky_post.author.handle,
                                                     LastSegment(shorten.bsky_post.uri))]
    /\ UNCHANGED cycle_vars

\* One iteration of the while loop of toot_shorten.
TootShortenIterate ==
    /\ shorten.pc = "loop" /\ shorten.fn = "toot"
    /\ TootShortenGuard(shorten.st)
    /\ shorten' = [shorten EXCEPT !.st = TootShortenStep(shorten.st, shorten.link),
                                  !.iterations = (@ + 1) % 2]
    /\ UNCHANGED cycle_vars

\* The loop condition is false: with_link is returned.
TootShortenReturn ==
    /\ shorten.pc = "loop" /\ shorten.fn = "toot"
    /\ ~TootShortenGuard(shorten.st)
    /\ shorten' = [shorten EXCEPT !.pc = "done", !.result = shorten.st.with_link]
    /\ UNCHANGED cycle_vars

ShortenNext ==
    \/ BskyShortenCall
    \/ BskyShortenIterate
    \/ BskyShortenReturn
    \/ TootShortenCall
    \/ TootShortenIterate
    \/ TootShortenReturn

SpecShorten == ShortenInit /\ [][ShortenNext]_vars /\ WF_vars(ShortenNext)

(***************************************************************************)
(* SpecSteady: determine_posts, run twice, on the snapshots in which every *)
(* eligible post already has an equal counterpart on the other platform.   *)
(***************************************************************************)
\* The outcome is a text that is no direct message.
IsBroadcast(post) == post.status = "ok" /\ ~StartsWith(post.text, <<"@">>)

\* The toot reaches the equality scan of the second pass.
TootReachesScan(toot, opts) ==
    /\ toot.in_reply_to_id = None
    /\ ~(toot.reblog # None /\ ~opts.sync_reblogs)
    /\ IsBroadcast(bsky_post_shorten(mastodon_toot_get_text(toot), TootSourceUrl(toot)))

\* The post reaches the equality scan of the first pass.
BskyReachesScan(post, opts) ==
    /\ post.reply = None
    /\ ~(~opts.sync_reposts /\ IsRepost(post))

\* The hashtag option admits the text: absent, empty or contained.
Admits(sync_hashtag, text) ==
    sync_hashtag = None \/ sync_hashtag[1] = <<>> \/ Contains(text, sync_hashtag[1])

\* An eligible toot: it reaches the scan and passes the hashtag filter.
TootEligible(toot, opts) ==
    /\ TootReachesScan(toot, opts)
    /\ Admits(opts.sync_hashtag_mastodon, mastodon_toot_get_text(toot))

\* The outcome is a text the hashtag option admits.
IsAdmitted(sync_hashtag, decoded) ==
    decoded.status = "ok" /\ Admits(sync_hashtag, decoded.text)

\* An eligible post: it reaches the scan and passes the hashtag filter.
BskyEligible(post, opts) ==
    /\ BskyReachesScan(post, opts)
    /\ IsAdmitted(opts.sync_hashtag_bluesky, bsky_post_unshorten_decode(post))

\* The outcome is the answer yes.
IsYes(eq) == eq.status = "ok" /\ eq.value

\* The matcher reports the two posts equal.
Equal(toot, post) == IsYes(toot_and_post_are_equal(toot, post))

\* Every eligible post of each platform has an equal counterpart on the other.
Synced(ms, bs, opts) ==
    /\ \A i \in 1..Len(ms) :
           TootEligible(ms[i], opts) => \E j \in 1..Len(bs) : Equal(ms[i], bs[j])
    /\ \A j \in 1..Len(bs) :
           BskyEligible(bs[j], opts) => \E i \in 1..Len(ms) : Equal(ms[i], bs[j])

SteadyInit ==
    /\ CycleStart(Snapshots(Toots, BskyPosts, MaxPosts), Options)
    /\ Synced(mastodon_statuses, bsky_statuses, options)

\* The next cycle finds the snapshot unchanged and plans again.
DeterminePostsAgain ==
    /\ pc = "planned"
    /\ Planned(determine_posts(mastodon_statuses, bsky_statuses, options), "replanned")
    /\ UNCHANGED <<mastodon_statuses, bsky_statuses, options, cache_file, post_cache,
                   filtered, posted, shorten>>

SteadyNext == DeterminePosts \/ DeterminePostsAgain

SpecSteady == SteadyInit /\ [][SteadyNext]_vars

(***************************************************************************)
(* Properties.                                                             *)
(***************************************************************************)
Entries(queue) == {queue[i] : i \in 1..Len(queue)}

\* C1: no post flagged as a reply (a toot with in_reply_to_id, a Bluesky
\* post with a reply reference) is the source of a NewStatus in either queue
\* returned by determine_posts, whatever the lists and the options.
C1_ReplyExclusion ==
    pc = "planned" =>
        /\ \A e \in Entries(updates.bsky_posts) :
               mastodon_statuses[e.source].in_reply_to_id = None
        /\ \A e \in Entries(updates.toots) :
               bsky_statuses[e.source].reply = None

\* A reply toot is newer than a toot that was emitted, and the Bluesky
\* timeline holds a reply too.
C1_Witness ==
    /\ pc = "planned"
    /\ \E e \in Entries(updates.bsky_posts) :
           \E i \in 1..Len(mastodon_statuses) :
               i < e.source /\ mastodon_statuses[i].in_reply_to_id # None
    /\ \E j \in 1..Len(bsky_statuses) : bsky_statuses[j].reply # None

\* C2: every NewStatus returned by determine_posts obeys its destination
\* limit in grapheme clusters, the appended link included: at most 300 in
\* bsky_posts, at most 500 in toots.
C2_LengthLimits ==
    pc = "planned" =>
        /\ \A e \in Entries(updates.bsky_posts) : GraphemeCount(e.text) <= 300
        /\ \A e \in Entries(updates.toots) : GraphemeCount(e.text) <= 500

\* Both queues hold a candidate whose source text was over the limit and
\* that now ends with the link.
C2_Witness ==
    /\ pc = "planned"
    /\ \E e \in Entries(updates.bsky_posts) :
           /\ GraphemeCount(mastodon_toot_get_text(mastodon_statuses[e.source])) > 300
           /\ EndsWith(e.text, Ellipsis \o TootUrl[1])
           /\ Len(e.text) > Len(Ellipsis \o TootUrl[1])
    /\ \E e \in Entries(updates.toots) :
           /\ GraphemeCount(bsky_statuses[e.source].post.record.text) > 500
           /\ EndsWith(e.text, Ellipsis \o BskyPermalink(Handle, <<"3lb3f2ko4rc23">>))

\* C4: each returned queue is oldest-first: of two candidates of a queue,
\* the one made from the older post (the larger position in the newest-first
\* input list) comes first.
C4_OldestFirst ==
    pc = "planned" =>
        \A queue \in {updates.bsky_posts, updates.toots} :
            \A a, b \in 1..Len(queue) :
                a < b => queue[a].source > queue[b].source

\* A queue holds two candidates.
C4_Witness ==
    /\ pc = "planned"
    /\ \E queue \in {updates.bsky_posts, updates.toots} : Len(queue) >= 2

\* C3: every call of bsky_post_shorten and of toot_shorten comes to an end,
\* whatever the text and the link: its loop is left and the call returns (or
\* panics), also when the text is down to nothing and the link alone is over
\* the limit.
C3_ShortenTerminates == <>(shorten.pc \in {"done", "panicked"})

\* C5: on a snapshot pair in which every eligible post of each platform has
\* an equal counterpart on the other (the initial condition of SpecSteady),
\* determine_posts returns two empty queues, the first time and the second.
C5_SteadyState == pc \in {"planned", "replanned"} => updates = NoUpdates

\* The second run has returned on a snapshot with an eligible toot and an
\* eligible Bluesky post.
C5_Witness ==
    /\ pc = "replanned"
    /\ \E i \in 1..Len(mastodon_statuses) : TootEligible(mastodon_statuses[i], options)
    /\ \E j \in 1..Len(bsky_statuses) : BskyEligible(bsky_statuses[j], options)

\* C6: a toot that determine_posts emits to bsky_posts with the text p is
\* reported equal, by toot_and_post_are_equal, to a non-reply Bluesky post
\* whose text is exactly p.
C6_OrderingClosure ==
    pc = "planned" =>
        \A e \in Entries(updates.bsky_posts) :
            Equal(mastodon_statuses[e.source], PlainBskyPost(e.text))

\* The hashtag option is absent or the empty string.
Unfiltered(sync_hashtag) == sync_hashtag = None \/ sync_hashtag[1] = <<>>

\* The positions of the input list the candidates of a queue were made from.
Sources(queue) == {e.source : e \in Entries(queue)}

\* The positions at which the first pass ends: a post that reaches the scan
\* and has an equal toot.
BskyHalts(ms, bs, opts) ==
    {j \in 1..Len(bs) :
        BskyReachesScan(bs[j], opts) /\ \E i \in 1..Len(ms) : Equal(ms[i], bs[j])}

\* The positions at which the second pass ends.
TootHalts(ms, bs, opts) ==
    {i \in 1..Len(ms) :
        TootReachesScan(ms[i], opts) /\ \E j \in 1..Len(bs) : Equal(ms[i], bs[j])}

\* The eligible candidates of the first pass: the posts that reach the scan
\* before the pass ends.
BskyCandidates(ms, bs, opts) ==
    {j \in 1..Len(bs) :
        BskyReachesScan(bs[j], opts) /\ \A k \in BskyHalts(ms, bs, opts) : j < k}

\* The eligible candidates of the second pass.
TootCandidates(ms, bs, opts) ==
    {i \in 1..Len(ms) :
        TootReachesScan(ms[i], opts) /\ \A k \in TootHalts(ms, bs, opts) : i < k}

\* C7: with a non-empty sync_hashtag_bluesky (sync_hashtag_mastodon) every
\* candidate in toots (bsky_posts) is made from a post whose normalized text
\* contains that string; with the option absent or empty every eligible
\* candidate is emitted.
C7_HashtagFilter ==
    pc = "planned" =>
        /\ ~Unfiltered(options.sync_hashtag_bluesky) =>
               \A e \in Entries(updates.toots) :
                   Contains(bsky_post_unshorten_decode(bsky_statuses[e.source]).text,
                            options.sync_hashtag_bluesky[1])
        /\ ~Unfiltered(options.sync_hashtag_mastodon) =>
               \A e \in Entries(updates.bsky_posts) :
                   Contains(mastodon_toot_get_text(mastodon_statuses[e.source]),
                            options.sync_hashtag_mastodon[1])
        /\ Unfiltered(options.sync_hashtag_bluesky) =>
               BskyCandidates(mastodon_statuses, bsky_statuses, options)
                   \subseteq Sources(updates.toots)
        /\ Unfiltered(options.sync_hashtag_mastodon) =>
               TootCandidates(mastodon_statuses, bsky_statuses, options)
                   \subseteq Sources(updates.bsky_posts)

\* Under a hashtag filter for toots, one eligible toot is emitted and another
\* is dropped, while the other direction is unfiltered and emits a post.
C7_Witness ==
    /\ pc = "planned"
    /\ options.sync_hashtag_mastodon = Some(Hashtag)
    /\ updates.bsky_posts # <<>>
    /\ \E i \in TootCandidates(mastodon_statuses, bsky_statuses, options) :
           i \notin Sources(updates.bsky_posts)
    /\ Unfiltered(options.sync_hashtag_bluesky)
    /\ updates.toots # <<>>

\* The candidates of a queue whose text is not in the cache, in their order.
NotCached(queue, cache) == SelectSeq(queue, LAMBDA e : e.text \notin cache)

\* C8: filter_posted_before returns, for each queue on its own, exactly the
\* candidates whose text is not in the cache, in their original order, and
\* it never returns an error.
C8_DuplicateGuard ==
    /\ pc # "failed"
    /\ pc = "filtered" =>
           /\ filtered.bsky_posts = NotCached(updates.bsky_posts, post_cache)
           /\ filtered.toots = NotCached(updates.toots, post_cache)

\* One candidate of a queue was dropped as cached and another was kept.
C8_Witness ==
    /\ pc = "filtered"
    /\ \E e \in Entries(updates.bsky_posts) : e.text \in post_cache
    /\ filtered.bsky_posts # <<>>

\* C9: read_post_cache always returns, and never more than 150 entries: the
\* empty set for an unreadable or unparsable file and for a parsed set of
\* more than 150 entries, the parsed set itself when it has at most 150.
C9_CacheLoad ==
    pc \in {"loaded", "filtered"} =>
        /\ Cardinality(post_cache) <= 150
        /\ (~cache_file.readable \/ ~cache_file.is_json) => post_cache = {}
        /\ (cache_file.readable /\ cache_file.is_json
                /\ Cardinality(cache_file.entries) > 150) => post_cache = {}
        /\ (cache_file.readable /\ cache_file.is_json
                /\ Cardinality(cache_file.entries) <= 150) =>
               post_cache = cache_file.entries

\* A parsed set of more than 150 entries was discarded.
C9_Witness ==
    /\ pc = "loaded"
    /\ cache_file.readable /\ cache_file.is_json
    /\ Cardinality(cache_file.entries) > 150
    /\ post_cache = {}

\* C10: every NewMedia of every NewStatus returned by determine_posts, in
\* bsky_posts and in toots, has an alt_text that is absent or at most 1000
\* characters long.
C10_AltTextLimit ==
    pc = "planned" =>
        \A queue \in {updates.bsky_posts, updates.toots} :
            \A e \in Entries(queue) :
                \A k \in 1..Len(e.attachments) :
                    \/ e.attachments[k].alt_text = None
                    \/ CharCount(e.attachments[k].alt_text[1]) <= 1000

\* C11: with sync_reblogs false no boost is the source of an entry of
\* bsky_posts, and with sync_reposts false no repost is the source of an
\* entry of toots.
C11_BoostGating ==
    pc = "planned" =>
        /\ ~options.sync_reblogs =>
               \A e \in Entries(updates.bsky_posts) :
                   mastodon_statuses[e.source].reblog = None
        /\ ~options.sync_reposts =>
               \A e \in Entries(updates.toots) : ~IsRepost(bsky_statuses[e.source])

\* Reposts are synced and boosts are not: a repost was emitted to toots, and
\* a toot older than a boost was emitted to bsky_posts.
C11_Witness ==
    /\ pc = "planned"
    /\ ~options.sync_reblogs /\ options.sync_reposts
    /\ \E e \in Entries(updates.toots) : IsRepost(bsky_statuses[e.source])
    /\ \E e \in Entries(updates.bsky_posts) :
           \E i \in 1..Len(mastodon_statuses) :
               i < e.source /\ mastodon_statuses[i].reblog # None

\* C12: no entry of the returned bsky_posts queue has a text that begins
\* with '@': a toot whose shortened text begins with '@' is not emitted, reply
\* or not.
C12_NoDirectToots ==
    pc = "planned" =>
        \A e \in Entries(updates.bsky_posts) : e.text = <<>> \/ e.text[1] # "@"

\* A toot that is no reply and begins with '@' is newer than an emitted toot.
C12_Witness ==
    /\ pc = "planned"
    /\ \E e \in Entries(updates.bsky_posts) :
           \E i \in 1..Len(mastodon_statuses) :
               /\ i < e.source
               /\ mastodon_statuses[i].in_reply_to_id = None
               /\ mastodon_statuses[i].reblog = None
               /\ mastodon_statuses[i].content[1] = "@"

\* The lengths of the prefixes of t that end with a whole token.
TokenEnds(t) ==
    {n \in 0..Len(t) :
        n = 0 \/ (~IsSpace(t[n]) /\ (n = Len(t) \/ IsSpace(t[n + 1])))}

\* The prefixes of whole whitespace-delimited tokens of the text, the text
\* itself (without the whitespace around it) included.
TokenPrefixes(text) == {Prefix(Trim(text), n) : n \in TokenEnds(Trim(text))}

\* The prefixes of whole tokens that lack at least the last token (the empty
\* prefix of a text without tokens).
ProperTokenPrefixes(text) ==
    {c \in TokenPrefixes(text) : c # Trim(text) \/ Trim(text) = <<>>}

\* c is the longest of the candidates that, followed by the suffix, has at
\* most limit grapheme clusters.
LongestFit(c, candidates, suffix, limit) ==
    /\ c \in candidates
    /\ GraphemeCount(c \o suffix) <= limit
    /\ \A d \in candidates : Len(d) > Len(c) => GraphemeCount(d \o suffix) > limit

\* "… " and the permalink of the post at://did:plc:i7/app.bsky.feed.post/3lb3f2ko4rc23
\* of klau.si.
PermalinkSuffix ==
    <<"ELL", " ", "https://", "bsky.app", "/", "profile", "/", "klau.si", "/", "post", "/",
      "3lb3f2ko4rc23">>

\* A call of toot_shorten has returned.
TootShortenDone == shorten.pc = "done" /\ shorten.fn = "toot"

\* C13 as stated: toot_shorten returns a text of at most 500 grapheme
\* clusters unchanged, and for a longer text the longest prefix of whole
\* tokens that fits in 500 together with "… " and the permalink, followed by
\* "… " and the permalink.
C13_LongestPrefix ==
    TootShortenDone =>
        IF GraphemeCount(shorten.text) <= 500 THEN shorten.result = shorten.text
        ELSE \E c \in TokenPrefixes(shorten.text) :
                 /\ LongestFit(c, TokenPrefixes(shorten.text), PermalinkSuffix, 500)
                 /\ shorten.result = c \o PermalinkSuffix

\* C13 amended: toot_shorten returns a text of at most 500 grapheme clusters
\* unchanged; a longer text loses at least its last token: the result is the
\* longest prefix of whole tokens short of the last one that fits in 500
\* together with "… " and the permalink, followed by "… " and the permalink.
C13_LongestProperPrefix ==
    TootShortenDone =>
        IF GraphemeCount(shorten.text) <= 500 THEN shorten.result = shorten.text
        ELSE \E c \in ProperTokenPrefixes(shorten.text) :
                 /\ LongestFit(c, ProperTokenPrefixes(shorten.text), PermalinkSuffix, 500)
                 /\ shorten.result = c \o PermalinkSuffix

\* toot_shorten has cut a text of three tokens down to its first two.
C13_Witness ==
    /\ TootShortenDone
    /\ GraphemeCount(shorten.text) > 500
    /\ \E c \in ProperTokenPrefixes(shorten.text) :
           /\ shorten.result = c \o PermalinkSuffix
           /\ \E n \in TokenEnds(c) : 0 < n /\ n < Len(c)

\* A call of bsky_post_shorten has returned.
BskyShortenDone == shorten.pc = "done" /\ shorten.fn = "bsky"

\* "… " and the URL when a URL is supplied, nothing otherwise.
LinkSuffix(toot_url) == IF toot_url = None THEN <<>> ELSE <<"ELL", " ">> \o toot_url[1]

\* C17 as stated: the result of bsky_post_shorten is made of the longest
\* prefix of whole tokens that fits in 300 together with the link suffix; it
\* carries the link suffix exactly when tokens were dropped and a URL was
\* supplied.  (Nothing is stated for a link suffix that is itself over 300.)
C17_DropsWhileOver ==
    (BskyShortenDone /\ GraphemeCount(LinkSuffix(shorten.toot_url)) <= 300) =>
        \E c \in TokenPrefixes(shorten.text) :
            /\ LongestFit(c, TokenPrefixes(shorten.text), LinkSuffix(shorten.toot_url), 300)
            /\ shorten.result =
                   IF c = Trim(shorten.text) THEN c ELSE c \o LinkSuffix(shorten.toot_url)

\* C17 amended: bsky_post_shorten returns a text of at most 300 grapheme
\* clusters whole, trimmed and without a link, with or without a URL; a
\* longer text loses at least its last token: the result is the longest
\* prefix of whole tokens short of the last one that fits in 300 together
\* with the link suffix, followed by the link suffix (nothing without a URL).
C17_DropsWhenTextOver ==
    BskyShortenDone =>
        IF GraphemeCount(shorten.text) <= 300 THEN shorten.result = Trim(shorten.text)
        ELSE \E c \in ProperTokenPrefixes(shorten.text) :
                 /\ LongestFit(c, ProperTokenPrefixes(shorten.text),
                               LinkSuffix(shorten.toot_url), 300)
                 /\ shorten.result = c \o LinkSuffix(shorten.toot_url)

\* bsky_post_shorten has returned, with its link, a text of at most 300
\* grapheme clusters whole although text and link together are over 300.
C17_Witness ==
    /\ BskyShortenDone
    /\ shorten.toot_url # None
    /\ GraphemeCount(shorten.text) <= 300
    /\ GraphemeCount(shorten.text \o LinkSuffix(shorten.toot_url)) > 300
    /\ shorten.result = shorten.text

\* The record of the Bluesky post does not parse.
RecordUnparsable(post) == ~post.post.record.parsable

\* C14 as stated: an unparsable Bluesky post record aborts the processing of
\* that post only: the call of the planner never panics, it returns its
\* queues.
C14_SinglePostAbort == pc # "panicked"

\* C14 amended: a call of the planner that comes to an unparsable Bluesky post
\* record (a post that is not skipped, before the first pass has halted) does
\* not return: the whole call is aborted and it yields no queue at all.
C14_WholeCallAbort ==
    /\ (\E j \in BskyCandidates(mastodon_statuses, bsky_statuses, options) :
            RecordUnparsable(bsky_statuses[j])) => pc # "planned"
    /\ pc = "panicked" => updates = NoUpdates

\* The call has panicked on a snapshot that holds, besides the unparsable
\* post, an eligible Bluesky post that parses and an eligible toot.
C14_Witness ==
    /\ pc = "panicked"
    /\ \E j, k \in BskyCandidates(mastodon_statuses, bsky_statuses, options) :
           RecordUnparsable(bsky_statuses[j]) /\ ~RecordUnparsable(bsky_statuses[k])
    /\ \E i \in 1..Len(mastodon_statuses) : TootReachesScan(mastodon_statuses[i], options)

\* C15: in each direction the emitted candidates are exactly the eligible
\* source posts (not skipped, passing the hashtag filter) strictly newer than
\* the first non-skipped source post that has an equal counterpart; that post
\* and the older ones are not emitted; without such a post every eligible
\* source post is emitted.
C15_FirstMatchHalts ==
    pc = "planned" =>
        /\ Sources(updates.toots) =
               {j \in BskyCandidates(mastodon_statuses, bsky_statuses, options) :
                   BskyEligible(bsky_statuses[j], options)}
        /\ Sources(updates.bsky_posts) =
               {i \in TootCandidates(mastodon_statuses, bsky_statuses, options) :
                   TootEligible(mastodon_statuses[i], options)}

\* The second pass has halted at a toot with an equal Bluesky post, and an
\* older eligible toot without counterpart was not emitted.
C15_Witness ==
    /\ pc = "planned"
    /\ \E k \in TootHalts(mastodon_statuses, bsky_statuses, options) :
           \E i \in 1..Len(mastodon_statuses) :
               /\ k < i
               /\ TootEligible(mastodon_statuses[i], options)
               /\ \A j \in 1..Len(bsky_statuses) :
                      ~Equal(mastodon_statuses[i], bsky_statuses[j])
               /\ i \notin Sources(updates.bsky_posts)

\* The equality of section 4.2: the same structure, and the comparison
\* texts are equal or the comparison text of the shortened canonical toot
\* text (shortened) equals that of the post (decoded).
MatcherContract(toot, bsky_post, canonical, shortened, decoded) ==
    /\ (toot.in_reply_to_id = None) = (bsky_post.reply = None)
    /\ \/ unify_post_content(canonical) = unify_post_content(decoded)
       \/ unify_post_content(shortened) = unify_post_content(decoded)

\* C16: toot_and_post_are_equal(a, b) is true exactly when a and b are both
\* replies or both no replies and the comparison texts of a and b are equal
\* or the comparison text of the canonical text of a, shortened for Bluesky
\* with the URL of a, equals the comparison text of b.
C16_MatcherContract ==
    pc = "planned" =>
        \A i \in 1..Len(mastodon_statuses), j \in 1..Len(bsky_statuses) :
            LET toot == mastodon_statuses[i]
                bsky_post == bsky_statuses[j]
                eq == toot_and_post_are_equal(toot, bsky_post)
                canonical == mastodon_toot_get_text(toot)
                shortened == bsky_post_shorten(canonical, TootSourceUrl(toot))
                decoded == bsky_post_unshorten_decode(bsky_post)
            IN  (eq.status = "ok" /\ shortened.status = "ok" /\ decoded.status = "ok") =>
                    eq.value = MatcherContract(toot, bsky_post, canonical, shortened.text,
                                               decoded.text)

\* The texts handed to the posting collaborators in the cycles before.
PostedBefore == BagToSet(posted)

\* C18: no text is handed to the posting collaborators more than once, within
\* one cycle or across cycles.
C18_NoDoublePosting == \A t \in BagToSet(posted) : CopiesIn(t, posted) <= 1

\* C18 (amended): a candidate retained by filter_posted_before never carries
\* a text that was handed to the posting collaborators in an earlier cycle.
C18_NoRepostAcrossCycles ==
    pc = "filtered" =>
        \A e \in Entries(filtered.bsky_posts) \cup Entries(filtered.toots) :
            e.text \notin PostedBefore

\* A later cycle plans a text again that an earlier cycle handed over; the
\* guard has dropped it and retained another candidate.
C18_Witness ==
    /\ pc = "filtered"
    /\ \E e \in Entries(updates.bsky_posts) \cup Entries(updates.toots) :
           e.text \in PostedBefore
    /\ Entries(filtered.bsky_posts) \cup Entries(filtered.toots) # {}

\* The toots skipped before the equality scan that have an equal Bluesky post.
SkippedToots(ms, bs, opts) ==
    {k \in 1..Len(ms) :
        ~TootReachesScan(ms[k], opts) /\ \E j \in 1..Len(bs) : Equal(ms[k], bs[j])}

\* The Bluesky posts skipped before the equality scan that have an equal toot.
SkippedBskyPosts(ms, bs, opts) ==
    {k \in 1..Len(bs) :
        ~BskyReachesScan(bs[k], opts) /\ \E i \in 1..Len(ms) : Equal(ms[i], bs[k])}

\* The toots up to toot i that are compared and have an equal Bluesky post.
TootHaltsUpTo(ms, bs, opts, i) == {h \in TootHalts(ms, bs, opts) : h <= i}

\* The Bluesky posts up to post j that are compared and have an equal toot.
BskyHaltsUpTo(ms, bs, opts, j) == {h \in BskyHalts(ms, bs, opts) : h <= j}

\* C19: a source post skipped before the equality scan (a reply, a repost
\* with sync_reposts false, a boost with sync_reblogs false, a toot whose
\* shortened text starts with '@') does not end its pass even when it has an
\* equal counterpart: an older eligible post is emitted unless a compared post
\* up to it has an equal counterpart.  A compared post with an equal
\* counterpart ends the pass also when the hashtag filter rejects it: neither
\* it nor an older post is emitted.
C19_SkippedNeverHalt ==
    pc = "planned" =>
        /\ \A k \in SkippedToots(mastodon_statuses, bsky_statuses, options) :
               \A i \in (k + 1)..Len(mastodon_statuses) :
                   (/\ TootEligible(mastodon_statuses[i], options)
                    /\ TootHaltsUpTo(mastodon_statuses, bsky_statuses, options, i) = {})
                       => i \in Sources(updates.bsky_posts)
        /\ \A k \in SkippedBskyPosts(mastodon_statuses, bsky_statuses, options) :
               \A j \in (k + 1)..Len(bsky_statuses) :
                   (/\ BskyEligible(bsky_statuses[j], options)
                    /\ BskyHaltsUpTo(mastodon_statuses, bsky_statuses, options, j) = {})
                       => j \in Sources(updates.toots)
        /\ \A k \in TootHalts(mastodon_statuses, bsky_statuses, options) :
               ~TootEligible(mastodon_statuses[k], options) =>
                   \A e \in Entries(updates.bsky_posts) : e.source < k
        /\ \A k \in BskyHalts(mastodon_statuses, bsky_statuses, options) :
               ~BskyEligible(bsky_statuses[k], options) =>
                   \A e \in Entries(updates.toots) : e.source < k

\* A skipped toot has an equal Bluesky post and an older toot was emitted;
\* that Bluesky post is compared, rejected by the hashtag filter and ends the
\* first pass with nothing emitted.
C19_Witness ==
    /\ pc = "planned"
    /\ \E k \in SkippedToots(mastodon_statuses, bsky_statuses, options) :
           /\ \E e \in Entries(updates.bsky_posts) : k < e.source
           /\ \E j \in BskyHalts(mastodon_statuses, bsky_statuses, options) :
                  /\ Equal(mastodon_statuses[k], bsky_statuses[j])
                  /\ ~BskyEligible(bsky_statuses[j], options)
    /\ updates.toots = <<>>

====
